---- MODULE Spec2Model ----
(***************************************************************************)
(* Model of content-processing/process.py: process_document reads a text   *)
(* file, unwraps the <pre> envelope, splits the payload at "THE END",      *)
(* takes the copyright text from the footer, segments the body into        *)
(* chapters with chapter_regex, extracts the numbered lines of every       *)
(* chapter and writes the assembled record as JSON.                        *)
(*                                                                         *)
(* Text is a sequence of one-character strings.  Positions are 1-based: a  *)
(* position p names the character s[p], and Len(s)+1 is the end of text.   *)
(***************************************************************************)
EXTENDS Integers, Sequences, FiniteSets, TLC

----------------------------------------------------------------------------
(* Characters and elementary string functions                              *)

\* Characters matched by \s and removed by str.strip() (those a string
\* literal can name; the input files hold no other whitespace).
Whitespace == {" ", "\t", "\n", "\r", "\f"}

\* Characters matched by \d.
Digits == {"0", "1", "2", "3", "4", "5", "6", "7", "8", "9"}

IsSpace(c) == c \in Whitespace

IsDigit(c) == c \in Digits

Min(S) == CHOOSE x \in S : \A y \in S : x <= y

Max(S) == CHOOSE x \in S : \A y \in S : x >= y

\* s[a..b], empty when b < a (Python slice s[a-1:b]).
Slice(s, a, b) == IF b < a THEN <<>> ELSE SubSeq(s, a, b)

\* The literal lit occurs in s at position p.
StartsWith(s, p, lit) ==
    /\ p >= 1
    /\ p + Len(lit) - 1 <= Len(s)
    /\ \A i \in 1..Len(lit) : s[p + i - 1] = lit[i]

\* Position of the first occurrence of lit in s, 0 when there is none.
Find(s, lit) ==
    LET hits == {p \in 1..Len(s) : StartsWith(s, p, lit)}
    IN  IF hits = {} THEN 0 ELSE Min(hits)

\* First position at or after p whose character is not whitespace
\* (Len(s)+1 when the whitespace runs to the end): the end of a greedy \s*.
WsRunEnd(s, p) ==
    Min({q \in p..(Len(s) + 1) : q = Len(s) + 1 \/ ~IsSpace(s[q])})

\* First position at or after p whose character is not a digit: the end of
\* a greedy \d*.
DigitRunEnd(s, p) ==
    Min({q \in p..(Len(s) + 1) : q = Len(s) + 1 \/ ~IsDigit(s[q])})

\* str.strip(): removes leading and trailing whitespace.
strip(s) ==
    LET keep == {i \in 1..Len(s) : ~IsSpace(s[i])}
    IN  IF keep = {} THEN <<>> ELSE SubSeq(s, Min(keep), Max(keep))

\* str.rpartition in place of str.partition: splits at the last occurrence.
partition_last(s, sep) ==
    LET hits == {p \in 1..Len(s) : StartsWith(s, p, sep)}
    IN  IF hits = {} THEN <<s, <<>>, <<>>>>
        ELSE <<Slice(s, 1, Max(hits) - 1), sep,
               Slice(s, Max(hits) + Len(sep), Len(s))>>

\* str.partition(sep): <<before, sep, after>> around the first occurrence of
\* sep, or <<s, "", "">> when sep does not occur.
partition(s, sep) ==
    LET p == Find(s, sep)
    IN  IF p = 0 THEN <<s, <<>>, <<>>>>
        ELSE <<Slice(s, 1, p - 1), sep, Slice(s, p + Len(sep), Len(s))>>

\* s.split(sep, 1)[-1]: the text after the first occurrence of sep, or the
\* whole of s when sep does not occur.
split_last(s, sep) ==
    LET p == Find(s, sep)
    IN  IF p = 0 THEN s ELSE Slice(s, p + Len(sep), Len(s))

\* '^' under re.MULTILINE: start of text or just after a newline.
AtLineStart(s, p) == p = 1 \/ (p >= 2 /\ p <= Len(s) + 1 /\ s[p - 1] = "\n")

----------------------------------------------------------------------------
(* Literals of the program                                                 *)

PreOpen == <<"<", "p", "r", "e">>

PreClose == <<"<", "/", "p", "r", "e", ">">>

TheEnd == <<"T", "H", "E", " ", "E", "N", "D">>

Separator == <<"-", "-", "-">>

\* The alternation with one numeral too many.
LabelsWithXIV ==
    << <<"I">>, <<"I", "I">>, <<"I", "I", "I">>, <<"I", "V">>, <<"V">>,
       <<"V", "I">>, <<"V", "I", "I">>, <<"V", "I", "I", "I">>, <<"I", "X">>,
       <<"X">>, <<"X", "I">>, <<"X", "I", "I">>, <<"X", "I", "I", "I">>,
       <<"X", "I", "V">> >>

\* The alternation of chapter_regex, in the order it is written.
Labels ==
    << <<"I">>, <<"I", "I">>, <<"I", "I", "I">>, <<"I", "V">>, <<"V">>,
       <<"V", "I">>, <<"V", "I", "I">>, <<"V", "I", "I", "I">>, <<"I", "X">>,
       <<"X">>, <<"X", "I">>, <<"X", "I", "I">>, <<"X", "I", "I", "I">> >>

Meta == [name |-> "Art of War", by |-> "Sun Tzu", translated_by |-> "Lionel Giles"]

----------------------------------------------------------------------------
(* Envelope: re.search(r'<pre[^>]*>(.*?)</pre>', html_content, re.DOTALL)  *)

\* The match that starts at position i, if any: [^>]* runs to the first '>'
\* after "<pre", and the lazy group ends at the first "</pre>" after it.
PreMatchAt(s, i) ==
    LET gts == {j \in (i + 4)..Len(s) : s[j] = ">"}
        j   == Min(gts)
        cls == {k \in (j + 1)..Len(s) : StartsWith(s, k, PreClose)}
    IN  IF ~StartsWith(s, i, PreOpen) \/ gts = {} \/ cls = {}
        THEN [found |-> FALSE, group |-> <<>>]
        ELSE [found |-> TRUE, group |-> Slice(s, j + 1, Min(cls) - 1)]

\* re.search: the match at the leftmost position that has one.
PreSearch(s) ==
    LET starts == {i \in 1..Len(s) : PreMatchAt(s, i).found}
    IN  IF starts = {} THEN [found |-> FALSE, group |-> <<>>]
        ELSE PreMatchAt(s, Min(starts))

----------------------------------------------------------------------------
(* Chapter segmentation: chapter_regex, re.MULTILINE                       *)

NoMatch == [matched |-> FALSE]

\* The alternation (I|II|...|XIII) followed by \. at position p: the index
\* of the first alternative after which a period follows, 0 when none.
MatchLabel(s, p) ==
    LET ok == {i \in 1..Len(Labels) : StartsWith(s, p, Labels[i] \o <<".">>)}
    IN  IF ok = {} THEN 0 ELSE Min(ok)

\* The lookahead (?=^(?:I|...|XIII)\.|\Z) at position x.
ChapterLookahead(s, x) ==
    \/ AtLineStart(s, x) /\ MatchLabel(s, x) # 0
    \/ x = Len(s) + 1

\* The match of chapter_regex that starts at position p, if any.
\*   ^(label)\.   the label and its period, at a line start
\*   \s+          greedy whitespace, newlines included; gives characters
\*                back until the rest of the pattern can match
\*   (.*?)\n      the title: up to the first newline
\*   ((?:.|\n)*?) the content block: up to the first position where the
\*                lookahead holds
ChapterMatchAt(s, p) ==
    LET li   == MatchLabel(s, p)
        w0   == p + Len(Labels[li]) + 1
        run  == WsRunEnd(s, w0)
        qs   == {q \in (w0 + 1)..run : \E n \in q..Len(s) : s[n] = "\n"}
        q    == Max(qs)
        nl   == Min({n \in q..Len(s) : s[n] = "\n"})
        e    == Min({x \in (nl + 1)..(Len(s) + 1) : ChapterLookahead(s, x)})
    IN  IF ~AtLineStart(s, p) \/ li = 0 \/ qs = {}
        THEN NoMatch
        ELSE [matched |-> TRUE, start |-> p, end |-> e,
              roman_numeral |-> Labels[li],
              title |-> Slice(s, q, nl - 1),
              content_block |-> Slice(s, nl + 1, e - 1)]

\* finditer: the next match at or after position pos, NoMatch when the
\* scan falls off the end of the text.
NextChapterMatch(s, pos) ==
    LET starts == {p \in pos..Len(s) : ChapterMatchAt(s, p).matched}
    IN  IF starts = {} THEN NoMatch ELSE ChapterMatchAt(s, Min(starts))

----------------------------------------------------------------------------
(* Line extraction: the numbered-line pattern, re.MULTILINE | re.DOTALL    *)

\* The literals of the lookahead's alternation that stand alone:
\* II|III|IV|V|VI|VII|VIII|IX|X|XI|XII.
StopLiterals ==
    { <<"I", "I">>, <<"I", "I", "I">>, <<"I", "V">>, <<"V">>, <<"V", "I">>,
      <<"V", "I", "I">>, <<"V", "I", "I", "I">>, <<"I", "X">>, <<"X">>,
      <<"X", "I">>, <<"X", "I", "I">> }

\* The lookahead
\*   (?=\n\s*\d+\.|\n\s*I|II|...|XII|XIII\.\s|\Z)
\* at position x.  The alternation binds weaker than concatenation, so each
\* of the fifteen alternatives stands on its own.
LineLookahead(b, x) ==
    \/ /\ x <= Len(b) /\ b[x] = "\n"
       /\ LET w == WsRunEnd(b, x + 1)
              d == DigitRunEnd(b, w)
          IN  d > w /\ d <= Len(b) /\ b[d] = "."
    \/ /\ x <= Len(b) /\ b[x] = "\n"
       /\ LET w == WsRunEnd(b, x + 1) IN w <= Len(b) /\ b[w] = "I"
    \/ \E lit \in StopLiterals : StartsWith(b, x, lit)
    \/ /\ StartsWith(b, x, <<"X", "I", "I", "I", ".">>)
       /\ x + 5 <= Len(b) /\ IsSpace(b[x + 5])
    \/ x = Len(b) + 1

\* The match of the numbered-line pattern that starts at position p:
\* ^\s*\d+\.\s+ and then the lazy group up to the first position where the
\* lookahead holds.
LineMatchAt(b, p) ==
    LET w == WsRunEnd(b, p)
        d == DigitRunEnd(b, w)
        t == WsRunEnd(b, d + 1)
        e == Min({x \in t..(Len(b) + 1) : LineLookahead(b, x)})
    IN  IF /\ AtLineStart(b, p)
           /\ d > w /\ d <= Len(b) /\ b[d] = "."
           /\ t > d + 1
        THEN [matched |-> TRUE, start |-> p, end |-> e, group |-> Slice(b, t, e - 1)]
        ELSE NoMatch

RECURSIVE FindAllFrom(_, _)
\* re.findall from position pos on: the groups of the successive
\* non-overlapping matches, each search resuming where the last match ended.
FindAllFrom(b, pos) ==
    LET starts == {p \in pos..Len(b) : LineMatchAt(b, p).matched}
    IN  IF starts = {} THEN <<>>
        ELSE LET m == LineMatchAt(b, Min(starts))
             IN  <<m.group>> \o FindAllFrom(b, m.end)

\* [line.strip() for line in re.findall(...)]
ExtractLines(b) ==
    LET lines == FindAllFrom(b, 1)
    IN  [i \in 1..Len(lines) |-> strip(lines[i])]

----------------------------------------------------------------------------
(* The run of process_document                                             *)

VARIABLES
    input_exists,    \* whether open(input_path) finds the file
    html_content,    \* the text of the input file
    pc,              \* position in process_document
    error,           \* the failure reported, "none" when there is none
    full_text,       \* pre_match.group(1).strip()
    main_content,    \* the body: text before "THE END", stripped
    footer,          \* text after "THE END", stripped
    copyright_info,  \* text of the footer after the first "---", stripped
    pos,             \* where finditer resumes its scan of main_content
    match,           \* the match of the current loop iteration
    chapters,        \* the list built by the loop
    output           \* the content of the output file, NoFile if never written

vars == <<input_exists, html_content, pc, error, full_text, main_content,
          footer, copyright_info, pos, match, chapters, output>>

NoFile == [written |-> FALSE]

\* The emptiness test applied to the payload before it is stripped.
PayloadEmptyUnstripped(group) == group = <<>>

\* if not full_text: an empty string is falsy.
PayloadEmpty(group) == strip(group) = <<>>

\* The dictionary appended to chapters for one match.
ChapterEntry(m) ==
    [chapter_number |-> m.roman_numeral,
     chapter_title  |-> strip(m.title),
     content        |-> ExtractLines(m.content_block)]

\* processed_data
ProcessedData ==
    [written |-> TRUE, meta |-> Meta, chapters |-> chapters,
     copyright |-> copyright_info]

InitOn(inputs) ==
    /\ \/ input_exists = FALSE /\ html_content = <<>>
       \/ input_exists = TRUE /\ html_content \in inputs
    /\ pc = "open"
    /\ error = "none"
    /\ full_text = <<>>
    /\ main_content = <<>>
    /\ footer = <<>>
    /\ copyright_info = <<>>
    /\ pos = 1
    /\ match = NoMatch
    /\ chapters = <<>>
    /\ output = NoFile

\* except FileNotFoundError: print, quit()
FileNotFound ==
    /\ pc = "open"
    /\ ~input_exists
    /\ error' = "FileNotFound"
    /\ pc' = "quit"
    /\ UNCHANGED <<input_exists, html_content, full_text, main_content, footer,
                   copyright_info, pos, match, chapters, output>>

\* if not pre_match: raise ValueError; except ValueError: print, quit()
EnvelopeNotFound ==
    /\ pc = "open"
    /\ input_exists
    /\ ~PreSearch(html_content).found
    /\ error' = "EnvelopeNotFound"
    /\ pc' = "quit"
    /\ UNCHANGED <<input_exists, html_content, full_text, main_content, footer,
                   copyright_info, pos, match, chapters, output>>

\* if not full_text: raise ValueError; except ValueError: print, quit()
EmptyPayload ==
    /\ pc = "open"
    /\ input_exists
    /\ PreSearch(html_content).found
    /\ PayloadEmpty(PreSearch(html_content).group)
    /\ full_text' = strip(PreSearch(html_content).group)
    /\ error' = "EmptyPayload"
    /\ pc' = "quit"
    /\ UNCHANGED <<input_exists, html_content, main_content, footer,
                   copyright_info, pos, match, chapters, output>>

\* The try block runs to its end: full_text holds the payload.
Extract ==
    /\ pc = "open"
    /\ input_exists
    /\ PreSearch(html_content).found
    /\ ~PayloadEmpty(PreSearch(html_content).group)
    /\ full_text' = strip(PreSearch(html_content).group)
    /\ pc' = "split"
    /\ UNCHANGED <<input_exists, html_content, error, main_content, footer,
                   copyright_info, pos, match, chapters, output>>

\* main_content, _, footer = map(str.strip, full_text.partition('THE END'))
Split ==
    /\ pc = "split"
    /\ main_content' = strip(partition(full_text, TheEnd)[1])
    /\ footer' = strip(partition(full_text, TheEnd)[3])
    /\ pc' = "copyright"
    /\ UNCHANGED <<input_exists, html_content, error, full_text,
                   copyright_info, pos, match, chapters, output>>

\* copyright_info = footer.split('---', 1)[-1].strip()
Copyright ==
    /\ pc = "copyright"
    /\ copyright_info' = strip(split_last(footer, Separator))
    /\ pos' = 1
    /\ pc' = "chapters"
    /\ UNCHANGED <<input_exists, html_content, error, full_text, main_content,
                   footer, match, chapters, output>>

\* One iteration of: for match in chapter_regex.finditer(main_content)
NextChapter ==
    /\ pc = "chapters"
    /\ NextChapterMatch(main_content, pos).matched
    /\ match' = NextChapterMatch(main_content, pos)
    /\ chapters' = Append(chapters, ChapterEntry(match'))
    /\ pos' = match'.end
    /\ UNCHANGED <<input_exists, html_content, pc, error, full_text,
                   main_content, footer, copyright_info, output>>

\* finditer is exhausted: the loop ends and processed_data is assembled.
NoMoreChapters ==
    /\ pc = "chapters"
    /\ ~NextChapterMatch(main_content, pos).matched
    /\ pc' = "write"
    /\ UNCHANGED <<input_exists, html_content, error, full_text, main_content,
                   footer, copyright_info, pos, match, chapters, output>>

\* with open(output_path, 'w') as f: json.dump(processed_data, f, ...)
WriteOk ==
    /\ pc = "write"
    /\ output' = ProcessedData
    /\ pc' = "done"
    /\ UNCHANGED <<input_exists, html_content, error, full_text, main_content,
                   footer, copyright_info, pos, match, chapters>>

\* except Exception as e: print(...)
WriteFail ==
    /\ pc = "write"
    /\ error' = "WriteFailure"
    /\ pc' = "done"
    /\ UNCHANGED <<input_exists, html_content, full_text, main_content,
                   footer, copyright_info, pos, match, chapters, output>>

Next ==
    \/ FileNotFound
    \/ EnvelopeNotFound
    \/ EmptyPayload
    \/ Extract
    \/ Split
    \/ Copyright
    \/ NextChapter
    \/ NoMoreChapters
    \/ WriteOk
    \/ WriteFail

----------------------------------------------------------------------------
(* Input files                                                             *)

RECURSIVE Concat(_)
\* The pieces of ps written one after the other.
Concat(ps) == IF ps = <<>> THEN <<>> ELSE Head(ps) \o Concat(Tail(ps))

RECURSIVE Join(_)
\* "\n".join(ls)
Join(ls) ==
    IF ls = <<>> THEN <<>>
    ELSE IF Len(ls) = 1 THEN ls[1]
    ELSE Head(ls) \o <<"\n">> \o Join(Tail(ls))

\* Sequences of at most n elements of S.
SeqsUpTo(S, n) == UNION {[1..k -> S] : k \in 0..n}

\* A payload inside its envelope.
Wrap(payload) == <<"<", "p", "r", "e", ">">> \o payload \o PreClose

\* Files that hold the payloads with and without the envelope.
Documents(payloads) == {Wrap(p) : p \in payloads} \cup payloads

MaxEnvPieces == 3

MaxSplitPieces == 4

MaxChapterLines == 3

MaxContentLines == 3

\* Fragments of container markup and text.
EnvPieces ==
    { <<"<", "p", "r", "e", ">">>,
      <<"<", "p", "r", "e">>,
      <<">">>,
      <<"<", "/", "p", "r", "e", ">">>,
      <<" ">>,
      <<"x">>,
      <<"I", ".", " ", "A", "\n", "x">> }

\* Fragments of a payload around the end marker and the separator.
SplitPieces ==
    { <<"T", "H", "E", " ", "E", "N", "D">>,
      <<"-", "-", "-">>,
      <<"-">>,
      <<"\n", "C">>,
      <<"x">>,
      <<"I", ".", " ", "A", "\n", "x", "\n">> }

\* Lines of a body.
ChapterLines ==
    { <<"I", ".", " ", "A">>,
      <<"I", "I", ".", " ", "B">>,
      <<"I", "I", "I", ".", " ", "T">>,
      <<"X", "I", "I", "I", ".", " ", "T">>,
      <<"X", "I", "V", ".", " ", "T">>,
      <<"I", ".", "x">>,
      <<"I", ".", " ">>,
      <<"x">>,
      <<" ", "1", ".", " ", "y">>,
      <<>> }

\* Lines of a chapter's content block.
ContentLines ==
    { <<"1", ".", " ", "a">>,
      <<" ", "2", ".", " ", "b">>,
      <<"c">>,
      <<"1", ".", " ", "a", "X", "b">>,
      <<"3", ".", " ", "X", "a">>,
      <<"2", ".", "5", " ", "b">>,
      <<"I", " ", "a", "m">>,
      <<>> }

EnvelopeInputs == {Concat(ps) : ps \in SeqsUpTo(EnvPieces, MaxEnvPieces)}

SplitInputs == Documents({Concat(ps) : ps \in SeqsUpTo(SplitPieces, MaxSplitPieces)})

ChapterInputs == Documents({Join(ls) : ls \in SeqsUpTo(ChapterLines, MaxChapterLines)})

LineInputs ==
    Documents({<<>>} \cup {<<"I", ".", " ", "A", "\n">> \o Join(ls) :
                              ls \in SeqsUpTo(ContentLines, MaxContentLines) \ {<<>>}})

SpecEnvelope == InitOn(EnvelopeInputs) /\ [][Next]_vars

SpecSplit == InitOn(SplitInputs) /\ [][Next]_vars

SpecChapters == InitOn(ChapterInputs) /\ [][Next]_vars

SpecLines == InitOn(LineInputs) /\ [][Next]_vars

----------------------------------------------------------------------------
(* What the claims speak of, stated without the program's patterns         *)

RECURSIVE ParseChapters(_, _)
\* The list the loop over finditer builds from position from on.
ParseChapters(s, from) ==
    LET m == NextChapterMatch(s, from)
    IN  IF ~m.matched THEN <<>>
        ELSE <<ChapterEntry(m)>> \o ParseChapters(s, m.end)

\* An opening tag '<pre ...>' runs from i to j.
OpeningTag(s, i, j) ==
    /\ StartsWith(s, i, PreOpen)
    /\ j >= i + 4 /\ j <= Len(s) /\ s[j] = ">"
    /\ \A k \in (i + 4)..(j - 1) : s[k] # ">"

\* The <<i, j, k>> with an opening tag from i to j and '</pre>' at k > j.
EnvelopePairs(s) ==
    {t \in (1..Len(s)) \X (1..Len(s)) \X (1..Len(s)) :
        OpeningTag(s, t[1], t[2]) /\ t[3] > t[2] /\ StartsWith(s, t[3], PreClose)}

\* The text between the first opening tag that has a closing tag after it
\* and the first such closing tag.
FirstPayload(s) ==
    LET i == Min({t[1] : t \in EnvelopePairs(s)})
        j == Min({t[2] : t \in {u \in EnvelopePairs(s) : u[1] = i}})
        k == Min({t[3] : t \in {u \in EnvelopePairs(s) : u[1] = i}})
    IN  Slice(s, j + 1, k - 1)

\* The input has no envelope, or an envelope around nothing but whitespace.
EnvelopeFatal ==
    /\ input_exists
    /\ \/ EnvelopePairs(html_content) = {}
       \/ \A i \in 1..Len(FirstPayload(html_content)) :
              IsSpace(FirstPayload(html_content)[i])

RECURSIVE Roman(_)
\* The Roman numeral of n, for n below 40.
Roman(n) ==
    IF n >= 10 THEN <<"X">> \o Roman(n - 10)
    ELSE IF n = 9 THEN <<"I", "X">>
    ELSE IF n >= 5 THEN <<"V">> \o Roman(n - 5)
    ELSE IF n = 4 THEN <<"I", "V">>
    ELSE IF n >= 1 THEN <<"I">> \o Roman(n - 1)
    ELSE <<>>

\* The 13 numeral labels I to XIII.
RomanLabels == {Roman(n) : n \in 1..13}

\* The longest run of the letters I, V, X that starts at position p.
RomanRun(s, p) ==
    LET e == Min({q \in p..(Len(s) + 1) :
                    q = Len(s) + 1 \/ s[q] \notin {"I", "V", "X"}})
    IN  Slice(s, p, e - 1)

\* Position p starts a line that begins with one of the 13 labels, a period
\* and whitespace.
ChapterStartLine(s, p) ==
    /\ AtLineStart(s, p)
    /\ RomanRun(s, p) \in RomanLabels
    /\ LET d == p + Len(RomanRun(s, p))
       IN  d + 1 <= Len(s) /\ s[d] = "." /\ IsSpace(s[d + 1])

ChapterStartLines(s) == {p \in 1..Len(s) : ChapterStartLine(s, p)}

\* End of the line that holds position p: its newline, or the end of text.
LineEnd(s, p) ==
    Min({q \in p..(Len(s) + 1) : q = Len(s) + 1 \/ s[q] = "\n"})

RECURSIVE Ascending(_)
\* The elements of the set of positions P in ascending order.
Ascending(P) ==
    IF P = {} THEN <<>> ELSE <<Min(P)>> \o Ascending(P \ {Min(P)})

\* The entry appended by the current iteration of the loop.
LastChapter == chapters[Len(chapters)]

ParsingDone == pc \in {"write", "done"}

----------------------------------------------------------------------------
(* Claims                                                                  *)

\* C1: when the input has no '<pre ...>' tag followed by '</pre>', or the
\* text between the first such pair is empty after trimming, the run reports
\* that error and stops at once: nothing is split, no chapter is parsed, the
\* output file is never written, and no further step is possible.
C1_EnvelopeErrorsAreFatal ==
    (EnvelopeFatal /\ pc # "open") =>
        /\ pc = "quit"
        /\ error = IF EnvelopePairs(html_content) = {}
                   THEN "EnvelopeNotFound" ELSE "EmptyPayload"
        /\ main_content = <<>> /\ footer = <<>> /\ copyright_info = <<>>
        /\ match = NoMatch /\ chapters = <<>>
        /\ output = NoFile
        /\ ~ENABLED Next

\* An envelope around whitespace only was read and the run has stopped.
C1_Witness ==
    /\ pc = "quit"
    /\ error = "EmptyPayload"
    /\ EnvelopePairs(html_content) # {}
    /\ FirstPayload(html_content) # <<>>

\* C7: the payload is split at the first "THE END": the trimmed text before
\* it is the body, the trimmed text after it the footer.  Without "THE END"
\* the split does not fail: the body is the whole payload, the footer and
\* the copyright string are empty, the chapters of the whole payload are
\* parsed and the record is written unless the write itself fails.
C7_SplitAtFirstEndMarker ==
    LET occ == {p \in 1..Len(full_text) : StartsWith(full_text, p, TheEnd)}
    IN  pc \in {"copyright", "chapters", "write", "done"} =>
          IF occ = {}
          THEN /\ main_content = full_text
               /\ footer = <<>>
               /\ copyright_info = <<>>
               /\ error \in {"none", "WriteFailure"}
               /\ ParsingDone => chapters = ParseChapters(full_text, 1)
               /\ (pc = "done" /\ error = "none") =>
                      output = [written |-> TRUE, meta |-> Meta,
                                chapters |-> ParseChapters(full_text, 1),
                                copyright |-> <<>>]
          ELSE \E p \in occ :
               /\ \A q \in occ : p <= q
               /\ main_content = strip(Slice(full_text, 1, p - 1))
               /\ footer = strip(Slice(full_text, p + Len(TheEnd), Len(full_text)))

\* A payload without "THE END" but with a '---' was parsed into at least one
\* chapter and written.
C7_Witness ==
    /\ pc = "done"
    /\ output # NoFile
    /\ Find(full_text, TheEnd) = 0
    /\ Find(full_text, Separator) # 0
    /\ chapters # <<>>

\* C10: every chapter starts on a line that begins with exactly one of the
\* 13 labels I..XIII, a period and whitespace; chapter_number is that whole
\* label; and a content block ends only at the end of the body or at a line
\* that begins with one of the 13 labels, so a line that begins with another
\* numeral (XIV.) neither starts a chapter nor ends a block.
C10_ExactLabels ==
    match.matched =>
        LET r == RomanRun(main_content, match.start)
        IN  /\ ChapterStartLine(main_content, match.start)
            /\ match.roman_numeral = r
            /\ LastChapter.chapter_number = r
            /\ match.end <= Len(main_content) =>
                  /\ AtLineStart(main_content, match.end)
                  /\ RomanRun(main_content, match.end) \in RomanLabels

\* Chapter XIII was emitted and its content block holds a line 'XIV. T'.
C10_Witness ==
    /\ match.matched
    /\ LastChapter.chapter_number = <<"X", "I", "I", "I">>
    /\ Find(match.content_block, <<"X", "I", "V", ".">>) # 0

\* First position at or after p whose character is not a hyphen.
HyphenRunEnd(s, p) ==
    Min({q \in p..(Len(s) + 1) : q = Len(s) + 1 \/ s[q] # "-"})

\* C3: the copyright string is the trimmed footer text after the separator,
\* the separator being the whole run of hyphens found at the first '---';
\* without '---' it is the whole trimmed footer.
C3_CopyrightAfterHyphenRun ==
    pc \in {"chapters", "write", "done"} =>
        copyright_info =
            IF Find(footer, Separator) = 0 THEN footer
            ELSE strip(Slice(footer, HyphenRunEnd(footer, Find(footer, Separator)),
                             Len(footer)))

\* C4: the number of chapters emitted equals the number of lines of the body
\* that begin with one of the 13 labels, a period and whitespace.
C4_ChapterCount ==
    ParsingDone => Len(chapters) = Cardinality(ChapterStartLines(main_content))

\* The labels of the chapter-start lines of s, in the order of their
\* positions.
LabelsInOrder(s) ==
    LET ps == Ascending(ChapterStartLines(s))
    IN  [i \in 1..Len(ps) |-> RomanRun(s, ps[i])]

RECURSIVE IsSubsequence(_, _)
\* The elements of a occur in b in the same order.
IsSubsequence(a, b) ==
    IF a = <<>> THEN TRUE
    ELSE IF b = <<>> THEN FALSE
    ELSE IF Head(a) = Head(b) THEN IsSubsequence(Tail(a), Tail(b))
    ELSE IsSubsequence(a, Tail(b))

\* How many elements of the sequence q equal x.
Count(q, x) == Cardinality({i \in 1..Len(q) : q[i] = x})

\* C5: the chapters are emitted in the order of the positions of their
\* chapter-start lines, whatever the numerals: nothing is re-sorted, and a
\* numeral on two chapter-start lines gives two entries.
C5_SourceOrderKeepsDuplicates ==
    ParsingDone =>
        LET numbers == [i \in 1..Len(chapters) |-> chapters[i].chapter_number]
        IN  /\ IsSubsequence(numbers, LabelsInOrder(main_content))
            /\ \A l \in RomanLabels :
                   Count(LabelsInOrder(main_content), l) >= 2
                       => Count(numbers, l) >= 2

\* C6: the content block of a chapter is the body text from the line after
\* its title line up to the next chapter-start line or the end of the body.
C6_BlockUpToNextChapterStart ==
    match.matched =>
        LET from  == LineEnd(main_content, match.start) + 1
            later == {p \in ChapterStartLines(main_content) : p > match.start}
            to    == IF later = {} THEN Len(main_content) + 1 ELSE Min(later)
        IN  match.content_block = Slice(main_content, from, to - 1)

\* The rest of the chapter-start line at p after its label and period.
TitleOnLine(s, p) ==
    strip(Slice(s, p + Len(RomanRun(s, p)) + 1, LineEnd(s, p) - 1))

\* The chapter-start lines from position a up to, not including, position b
\* whose title is empty.
UntitledStarts(s, a, b) ==
    {p \in ChapterStartLines(s) : a <= p /\ p < b /\ TitleOnLine(s, p) = <<>>}

\* C9: chapter_title is the trimmed rest of the chapter-start line itself,
\* and a chapter whose line has nothing after the numeral is emitted with an
\* empty title: the loop passes over no such line.
C9_TitleFromSameLine ==
    [][/\ NextChapter =>
            /\ LastChapter'.chapter_title = TitleOnLine(main_content, match'.start)
            /\ UntitledStarts(main_content, pos, match'.start) = {}
       /\ NoMoreChapters =>
            UntitledStarts(main_content, pos, Len(main_content) + 1) = {}]_vars

\* A numbered-entry marker starts at position p: start of line, optional
\* whitespace, digits, a period, whitespace.
EntryMarker(b, p) ==
    /\ AtLineStart(b, p)
    /\ LET w == WsRunEnd(b, p)
           d == DigitRunEnd(b, w)
       IN  d > w /\ d + 1 <= Len(b) /\ b[d] = "." /\ IsSpace(b[d + 1])

\* Position just after the marker that starts at p.
AfterMarker(b, p) == WsRunEnd(b, DigitRunEnd(b, WsRunEnd(b, p)) + 1)

RECURSIVE EntriesFrom(_, _)
\* The numbered entries of block b from position a on: each runs from just
\* after its marker to the next marker or the end of the block, trimmed.
EntriesFrom(b, a) ==
    LET ms == {p \in a..Len(b) : EntryMarker(b, p)}
    IN  IF ms = {} THEN <<>>
        ELSE LET t     == AfterMarker(b, Min(ms))
                 later == {p \in t..Len(b) : EntryMarker(b, p)}
                 to    == IF later = {} THEN Len(b) + 1 ELSE Min(later)
             IN  <<strip(Slice(b, t, to - 1))>> \o EntriesFrom(b, to)

\* C2: the content entries of a chapter are the trimmed texts between each
\* numbered-entry marker and the next marker or the end of the block,
\* whatever the text holds.
C2_EntryRunsToNextMarker ==
    match.matched => LastChapter.content = EntriesFrom(match.content_block, 1)

RECURSIVE Decimal(_)
\* str(k) for k >= 0.
Decimal(k) ==
    LET digit == <<"0", "1", "2", "3", "4", "5", "6", "7", "8", "9">>
    IN  IF k < 10 THEN <<digit[k + 1]>>
        ELSE Decimal(k \div 10) \o <<digit[(k % 10) + 1]>>

\* The entries written back as a block: entry k as the line 'k. ' and its
\* text.
Renumbered(entries) ==
    Join([k \in 1..Len(entries) |-> Decimal(k) \o <<".", " ">> \o entries[k]])

\* C8: extracting the entries of a block, writing them back with markers
\* and extracting again gives the same entries.
C8_RoundTrip ==
    match.matched =>
        ExtractLines(Renumbered(LastChapter.content)) = LastChapter.content

====
